---------------------------- MODULE Spec2Model ----------------------------
(***************************************************************************)
(* A model of the Pascal-subset interpreter of src/calcint/pasint.py       *)
(* (Lexer, Parser, Interpreter) with the AST classes of src/calcint/ast.py *)
(* and of the direct evaluator of src/calcint/calcint-sdi.py; and a model  *)
(* of the run-length codec of src/rle/rle.py.                              *)
(*                                                                         *)
(* Conventions.                                                            *)
(*  - A source text is a sequence of one-character strings; Python's       *)
(*    0-based cursor `pos` is kept 0-based, so text[pos] is text[pos + 1]. *)
(*  - Python's None is the string "None" where a character is expected and *)
(*    the value NoneV where a runtime value is expected.                   *)
(*  - A raised exception is a record [kind, arg]; every operator that can  *)
(*    raise returns a record with an `err` field, and an operation that    *)
(*    follows a raise is skipped (the exception unwinds to the caller).    *)
(*  - A Python float is modelled by the exact rational it denotes,         *)
(*    [k |-> "float", num, den] in lowest terms; an int is                 *)
(*    [k |-> "int", num, den |-> 1].                                       *)
(*  - pasint.py lines 139 and 141 each lack their last closing             *)
(*    parenthesis; the model reads them with the parenthesis closed.       *)
(*  - The print calls (pasint.py 197, ast.py 115) only write to stdout     *)
(*    and are not modelled.                                                *)
(***************************************************************************)
EXTENDS Integers, Sequences, FiniteSets, TLC

VARIABLES
    pc,            \* where the caller is: "start", "lexer", "parser", "interp",
                   \* "tree", "parsed", "declared", "done", or "failed" after an
                   \* exception
    text,          \* the source text handed to Lexer(text)
    lexer,         \* the Lexer object: [text, pos, char]
    token,         \* Parser.token (with a parser), or the last token next() returned
    tree,          \* the node the last parse()/expr() returned, or NoTree
    result,        \* the value the last visit()/interpret() returned
    GLOBAL_SCOPE,  \* Interpreter.GLOBAL_SCOPE
    err,           \* the exception that reached the caller, or NoErr
    calls,         \* how many calls of Lexer.next() have been made on the lexer
    sdi,           \* what calcint-sdi.py's main() got for the same text
    rle            \* rle.py: the caller of compress() and decompress(), and the
                   \* locals of the call that is running

vars == <<pc, text, lexer, token, tree, result, GLOBAL_SCOPE, err, calls, sdi, rle>>

---------------------------------------------------------------------------
(* Bounds of the model *)

MaxTextLen == 3      \* longest text given to the lexer alone
MaxNextCalls == 5    \* calls of Lexer.next() made by a caller of the lexer alone
MaxExprLen == 7      \* most tokens of a generated expression without signs
MaxSigns == 3        \* longest generated chain of unary signs

---------------------------------------------------------------------------
(* Characters: str.isdigit, str.isalpha, str.isalnum, str.isspace *)

Digits == {"0", "1", "2", "3", "4", "5", "6", "7", "8", "9"}

Letters ==
    {"A", "B", "C", "D", "E", "F", "G", "H", "I", "J", "K", "L", "M",
     "N", "O", "P", "Q", "R", "S", "T", "U", "V", "W", "X", "Y", "Z",
     "a", "b", "c", "d", "e", "f", "g", "h", "i", "j", "k", "l", "m",
     "n", "o", "p", "q", "r", "s", "t", "u", "v", "w", "x", "y", "z"}

Spaces == {" ", "\t", "\n"}

isdigit(c) == c \in Digits
isalpha(c) == c \in Letters
isalnum(c) == c \in Letters \cup Digits
isspace(c) == c \in Spaces

DigitVal(c) ==
    CASE c = "0" -> 0 [] c = "1" -> 1 [] c = "2" -> 2 [] c = "3" -> 3
      [] c = "4" -> 4 [] c = "5" -> 5 [] c = "6" -> 6 [] c = "7" -> 7
      [] c = "8" -> 8 [] c = "9" -> 9

---------------------------------------------------------------------------
(* Exceptions *)

NoErr == [kind |-> "none", arg |-> ""]
Raise(kind, arg) == [kind |-> kind, arg |-> arg]
CalcError(msg) == Raise("CalcError", msg)
Failed(r) == r.err # NoErr

---------------------------------------------------------------------------
(* Runtime values *)

RECURSIVE GCD(_, _)
GCD(a, b) == IF b = 0 THEN a ELSE GCD(b, a % b)

Abs(n) == IF n < 0 THEN -n ELSE n

NoneV == [k |-> "None", num |-> 0, den |-> 1]
IntV(n) == [k |-> "int", num |-> n, den |-> 1]
\* the float num/den (den > 0), in lowest terms
FloatV(n, d) ==
    LET g == GCD(Abs(n), d)
    IN  [k |-> "float", num |-> n \div g, den |-> d \div g]

IsNumber(v) == v.k \in {"int", "float"}

RECURSIVE Pow10(_)
Pow10(n) == IF n = 0 THEN 1 ELSE 10 * Pow10(n - 1)

\* int(''.join(result)) for a non-empty run of digits
RECURSIVE IntOfDigits(_)
IntOfDigits(ds) ==
    IF ds = <<>> THEN 0
    ELSE 10 * IntOfDigits(SubSeq(ds, 1, Len(ds) - 1)) + DigitVal(ds[Len(ds)])

\* float(''.join(result)) for digits '.' digits (the second run may be empty)
FloatOfDigits(ip, fp) ==
    FloatV(IntOfDigits(ip) * Pow10(Len(fp)) + IntOfDigits(fp), Pow10(Len(fp)))

---------------------------------------------------------------------------
(* Tokens: class TOKEN and class Token *)

\* TOKEN.<member>.value, which Token.__init__ stores when no value is given
TokenValue(type) ==
    \* the auto() members are the ints 1..5 in Python; written here as strings
    CASE type = "EOF" -> "1"
      [] type = "DOT" -> "."
      [] type = "COMMA" -> ","
      [] type = "SEMI" -> ";"
      [] type = "COLON" -> ":"
      [] type = "EMPTY" -> "2"
      [] type = "ASSIGN" -> ":="
      [] type = "INTEGER_CONST" -> "3"
      [] type = "REAL_CONST" -> "4"
      [] type = "ID" -> "5"
      [] type = "LPAREN" -> "("
      [] type = "RPAREN" -> ")"
      [] type = "MUL" -> "*"
      [] type = "FLOAT_DIV" -> "/"
      [] type = "INTEGER_DIV" -> "DIV"
      [] type = "PLUS" -> "+"
      [] type = "MINUS" -> "-"
      [] OTHER -> type     \* PROGRAM, VAR, BEGIN, END, INTEGER, REAL

\* Token(type): value defaults to type.value
Token(type) == [type |-> type, value |-> TokenValue(type)]
\* Token(type, value) with a value that is not None
TokenWith(type, value) == [type |-> type, value |-> value]

NoToken == [type |-> "None", value |-> "None"]

ReservedWords == {"PROGRAM", "VAR", "BEGIN", "END", "INTEGER", "REAL", "DIV"}

RESERVED_KEYWORDS_WithoutDIV(identifier) ==
    IF identifier \in ReservedWords \ {"DIV"} THEN Token(identifier)
    ELSE TokenWith("ID", identifier)

\* RESERVED_KEYWORDS.get(identifier, Token(TOKEN.ID, identifier))
RESERVED_KEYWORDS(identifier) ==
    IF identifier \in ReservedWords
    THEN IF identifier = "DIV" THEN Token("INTEGER_DIV") ELSE Token(identifier)
    ELSE TokenWith("ID", identifier)

---------------------------------------------------------------------------
(* class Lexer *)

NoLexer == [text |-> <<>>, pos |-> 0, char |-> "None"]

\* Lexer.__init__: text[0] of an empty text raises IndexError
LexerNew(t) ==
    IF Len(t) = 0
    THEN [lx |-> NoLexer, err |-> Raise("IndexError", "string index out of range")]
    ELSE [lx |-> [text |-> t, pos |-> 0, char |-> t[1]], err |-> NoErr]

advance(lx) ==
    LET p == lx.pos + 1
    IN  [lx EXCEPT !.pos = p,
                   !.char = IF p >= Len(lx.text) THEN "None" ELSE lx.text[p + 1]]

RECURSIVE skip_whitespace(_)
skip_whitespace(lx) ==
    IF lx.char # "None" /\ isspace(lx.char)
    THEN skip_whitespace(advance(lx))
    ELSE lx

\* the loops of number(): the digits collected and the lexer after them
RECURSIVE DigitRun(_, _)
DigitRun(lx, acc) ==
    IF lx.char # "None" /\ isdigit(lx.char)
    THEN DigitRun(advance(lx), Append(acc, lx.char))
    ELSE [lx |-> lx, run |-> acc]

number(lx) ==
    LET ip == DigitRun(lx, <<>>)
    IN  IF ip.lx.char = "."
        THEN LET fp == DigitRun(advance(ip.lx), <<>>)
             IN  [lx |-> fp.lx,
                  token |-> TokenWith("REAL_CONST", FloatOfDigits(ip.run, fp.run))]
        ELSE [lx |-> ip.lx,
              token |-> TokenWith("INTEGER_CONST", IntV(IntOfDigits(ip.run)))]

peek(lx) ==
    LET peek_pos == lx.pos + 1
    IN  IF peek_pos <= Len(lx.text) - 1 THEN lx.text[peek_pos + 1] ELSE "None"

\* the loop of _id(): the identifier joined so far and the lexer after it
RECURSIVE AlnumRun(_, _)
AlnumRun(lx, acc) ==
    IF lx.char # "None" /\ isalnum(lx.char)
    THEN AlnumRun(advance(lx), acc \o lx.char)
    ELSE [lx |-> lx, identifier |-> acc]

_id(lx) ==
    LET r == AlnumRun(lx, "")
    IN  [lx |-> r.lx, token |-> RESERVED_KEYWORDS(r.identifier)]

\* the single-character tokens of next(), each followed by one advance()
SingleCharType(c) ==
    CASE c = ":" -> "COLON"
      [] c = ";" -> "SEMI"
      [] c = "." -> "DOT"
      [] c = "," -> "COMMA"
      [] c = "(" -> "LPAREN"
      [] c = ")" -> "RPAREN"
      [] c = "*" -> "MUL"
      [] c = "/" -> "FLOAT_DIV"
      [] c = "+" -> "PLUS"
      [] c = "-" -> "MINUS"
      [] OTHER -> "None"

\* Lexer.next(): [lx, token, err]
RECURSIVE next(_)
next(lx) ==
    IF lx.char = "None"
    THEN [lx |-> lx, token |-> TokenWith("EOF", TokenValue("EOF")), err |-> NoErr]
    ELSE IF isspace(lx.char) THEN next(skip_whitespace(lx))
    ELSE LET char == lx.char
         IN  IF isalpha(char)
             THEN LET r == _id(lx) IN [lx |-> r.lx, token |-> r.token, err |-> NoErr]
             ELSE IF char = ":" /\ peek(lx) = "="
             THEN [lx |-> advance(advance(lx)), token |-> Token("ASSIGN"), err |-> NoErr]
             ELSE IF char \in {":", ";", ".", ","}
             THEN [lx |-> advance(lx), token |-> Token(SingleCharType(char)),
                   err |-> NoErr]
             ELSE IF isdigit(char)
             THEN LET r == number(lx) IN [lx |-> r.lx, token |-> r.token, err |-> NoErr]
             ELSE IF char \in {"(", ")", "*", "/", "+", "-"}
             THEN [lx |-> advance(lx), token |-> TokenWith(SingleCharType(char), char),
                   err |-> NoErr]
             ELSE [lx |-> lx, token |-> NoToken,
                   err |-> CalcError("invalid character " \o char)]

---------------------------------------------------------------------------
(* The AST classes of ast.py.  A node is a record: `node` is the class     *)
(* name, `token` the token it was built from (AST.op is the same token,    *)
(* AST.value is token.value), `children` the list of child nodes.          *)

NoTree == [node |-> "None"]

AST(class, tok, nodes) == [node |-> class, token |-> tok, children |-> nodes]

Program(name, node) == [node |-> "Program", name |-> name, children |-> <<node>>]
Block(nodes) == [node |-> "Block", children |-> nodes]
VarDecl(var_node, type_node) == [node |-> "VarDecl", children |-> <<var_node, type_node>>]
Type(tok) == AST("Type", tok, <<>>)
Compound(nodes) == [node |-> "Compound", children |-> nodes]
Assign(tok, var, value) == AST("Assign", tok, <<var, value>>)
Var(tok) == AST("Var", tok, <<>>)
NoOp == [node |-> "NoOp", children |-> <<>>]
UnaryOp(tok, child) == AST("UnaryOp", tok, <<child>>)
BinOp(tok, left, right) == AST("BinOp", tok, <<left, right>>)
Num(tok) == AST("Num", tok, <<>>)

\* Every constructor call makes a new object.  `id` is the object's identity:
\* the number of AST objects the parser had made before it.
Object(n, node) == [id |-> n] @@ node

---------------------------------------------------------------------------
(* class Parser.  A parser state is [lx, token, err, node, made, asked,   *)
(* eaten]: the lexer, the one buffered token, the exception raised (NoErr  *)
(* while none is), the value the last parsing method returned (a node or a *)
(* list of nodes), the number of AST objects made so far, the number of    *)
(* calls of lexer.next() made so far, and the number of calls of eat()     *)
(* that found the token type they were given.                              *)
(* Every method passes a state that holds an exception through unchanged:  *)
(* the statements after a raise do not run.                                *)

RECURSIVE compound_statement(_), statement_list(_), StatementListLoop(_, _),
          StatementListMore(_, _), statement(_), assignment_statement(_),
          expr(_), ExprLoop(_), term(_), TermLoop(_), factor(_)

\* Parser.__init__: the first token is pulled from the lexer
ParserNew(lx) ==
    LET n == next(lx)
    IN  [lx |-> n.lx, token |-> n.token, err |-> n.err, node |-> NoTree, made |-> 0,
         asked |-> 1, eaten |-> 0]

\* Parser.error
SyntaxErr == CalcError("invalid syntax")

\* self.token = self.lexer.next(), with n what next() gave
Pull(p, n) ==
    IF Failed(n) THEN [p EXCEPT !.lx = n.lx, !.err = n.err, !.asked = p.asked + 1]
    ELSE [p EXCEPT !.lx = n.lx, !.token = n.token, !.asked = p.asked + 1]

\* an eat() that pulls the next token before it looks at the type
eatPulling(p, expected) ==
    IF Failed(p) THEN p
    ELSE IF p.token.type = expected
    THEN Pull([p EXCEPT !.eaten = p.eaten + 1], next(p.lx))
    ELSE [Pull(p, next(p.lx)) EXCEPT !.err = SyntaxErr]

\* the branch of eat() for a token of the type expected
Eaten(p) == Pull([p EXCEPT !.eaten = p.eaten + 1], next(p.lx))

eat(p, expected) ==
    IF Failed(p) THEN p
    ELSE IF p.token.type = expected THEN Eaten(p)
    ELSE [p EXCEPT !.err = SyntaxErr]

\* return node
Return(p, node) == IF Failed(p) THEN p ELSE [p EXCEPT !.node = node]

\* node = <Class>(...): the constructor makes an object no other node is
New(p, node) ==
    IF Failed(p) THEN p
    ELSE [p EXCEPT !.node = Object(p.made, node), !.made = p.made + 1]

\* an exception raised where p has got to
RaiseAt(p, e) == IF Failed(p) THEN p ELSE [p EXCEPT !.err = e, !.node = NoTree]

variable(p) == New(eat(p, "ID"), Var(p.token))

empty(p) == New(p, NoOp)

type_spec(p) ==
    New(eat(p, IF p.token.type = "INTEGER" THEN "INTEGER" ELSE "REAL"),
        Type(p.token))

\* the token types the loops of expr() and term() go on for
ExprOps == {"PLUS", "MINUS"}
TermOpsWithPlus == {"MUL", "INTEGER_DIV", "FLOAT_DIV", "PLUS"}
TermOps == {"MUL", "INTEGER_DIV", "FLOAT_DIV"}

\* node = UnaryOp(token, self.factor()), with f the state after self.factor()
MkUnaryOp(tok, f) == New(f, UnaryOp(tok, f.node))

\* node = BinOp(token, node, <right>), with r the state after the right operand
MkBinOp(tok, left, r) == New(r, BinOp(tok, left, r.node))

factor(p) ==
    IF Failed(p) THEN p
    ELSE IF p.token.type \in {"PLUS", "MINUS"}
    THEN MkUnaryOp(p.token, factor(eat(p, p.token.type)))
    ELSE IF p.token.type \in {"INTEGER_CONST", "REAL_CONST"}
    THEN New(eat(p, p.token.type), Num(p.token))
    ELSE IF p.token.type = "LPAREN"
    THEN eat(expr(eat(p, "LPAREN")), "RPAREN")
    ELSE variable(p)

\* the while loop of term(): p.node is the running left operand
TermLoop(p) ==
    IF Failed(p) \/ p.token.type \notin TermOps THEN p
    ELSE TermLoop(MkBinOp(p.token, p.node, factor(eat(p, p.token.type))))

term(p) == TermLoop(factor(p))

\* the while loop of expr(): p.node is the running left operand
ExprLoop(p) ==
    IF Failed(p) \/ p.token.type \notin ExprOps THEN p
    ELSE ExprLoop(MkBinOp(p.token, p.node, term(eat(p, p.token.type))))

expr(p) == ExprLoop(term(p))

\* node = Assign(self.token, left, right): the token is the one after the
\* expression
MkAssign(left, right) == New(right, Assign(right.token, left.node, right.node))

\* the statements of assignment_statement() after left = self.variable()
AssignmentRest(left) == MkAssign(left, expr(eat(left, "ASSIGN")))

assignment_statement(p) == AssignmentRest(variable(p))

statement(p) ==
    IF Failed(p) THEN p
    ELSE IF p.token.type = "BEGIN" THEN compound_statement(p)
    ELSE IF p.token.type = "ID" THEN assignment_statement(p)
    ELSE empty(p)

\* the while loop of statement_list() and the check that follows it
StatementListLoop(p, nodes) ==
    IF Failed(p) THEN p
    ELSE IF p.token.type = "SEMI"
    THEN StatementListMore(statement(eat(p, "SEMI")), nodes)
    ELSE IF p.token.type = "ID" THEN [p EXCEPT !.err = SyntaxErr]
    ELSE Return(p, nodes)

\* nodes.append(self.statement()), with s the state after self.statement()
StatementListMore(s, nodes) ==
    IF Failed(s) THEN s ELSE StatementListLoop(s, Append(nodes, s.node))

statement_list(p) == StatementListMore(statement(p), <<>>)

\* self.eat(TOKEN.END); root = Compound(*nodes)
MkCompound(nodes) == New(eat(nodes, "END"), Compound(nodes.node))

compound_statement(p) == MkCompound(statement_list(eat(p, "BEGIN")))

RECURSIVE VarNodesLoop(_, _), VarNodesMore(_, _)

\* the while loop of variable_declaration(): more names after commas
VarNodesLoop(p, var_nodes) ==
    IF Failed(p) THEN p
    ELSE IF p.token.type = "COMMA" THEN VarNodesMore(eat(p, "COMMA"), var_nodes)
    ELSE Return(p, var_nodes)

\* n more objects have been made
Made(p, n) == IF Failed(p) THEN p ELSE [p EXCEPT !.made = p.made + n]

\* var_nodes.append(Var(self.token)); self.eat(TOKEN.ID)
VarNodesMore(p, var_nodes) ==
    IF Failed(p) THEN p
    ELSE VarNodesLoop(Made(eat(p, "ID"), 1),
                      Append(var_nodes, Object(p.made, Var(p.token))))

\* var_decls = [VarDecl(var_node, type_node) for var_node in var_nodes],
\* with t the state after self.type_spec(): one VarDecl object is made for
\* each name, and each is given the one object type_node names
MkVarDecls(var_nodes, t) ==
    IF Failed(t) THEN t
    ELSE Made(Return(t, [k \in 1..Len(var_nodes) |->
                          Object(t.made + k - 1, VarDecl(var_nodes[k], t.node))]),
              Len(var_nodes))

\* the statements of variable_declaration() after the names
VarDeclRest(names) == MkVarDecls(names.node, type_spec(eat(names, "COLON")))

variable_declaration(p) == VarDeclRest(VarNodesMore(p, <<>>))

RECURSIVE DeclarationsLoop(_, _), DeclarationsMore(_, _)

\* the while loop of declarations()
DeclarationsLoop(p, decls) ==
    IF Failed(p) THEN p
    ELSE IF p.token.type = "ID" THEN DeclarationsMore(variable_declaration(p), decls)
    ELSE Return(p, decls)

\* decls.extend(var_decls); self.eat(TOKEN.SEMI)
DeclarationsMore(v, decls) ==
    IF Failed(v) THEN v ELSE DeclarationsLoop(eat(v, "SEMI"), decls \o v.node)

declarations(p) ==
    IF Failed(p) THEN p
    ELSE IF p.token.type = "VAR" THEN DeclarationsLoop(eat(p, "VAR"), <<>>)
    ELSE Return(p, <<>>)

\* Line 252 reads the name compound_statement, which is neither a local nor a
\* global of the module (the local is compound_statement_node): Python raises
\* NameError there, after both sub-parsers have run.
block(p) ==
    RaiseAt(compound_statement(declarations(p)),
            Raise("NameError", "name 'compound_statement' is not defined"))

\* Line 247 returns the name node, which program() never binds (the local is
\* program_node): Python raises NameError there.
program(p) ==
    RaiseAt(eat(block(eat(variable(eat(p, "PROGRAM")), "SEMI")), "DOT"),
            Raise("NameError", "name 'node' is not defined"))

\* the check of parse() after node = self.program()
CheckEOF(p) ==
    IF Failed(p) THEN p
    ELSE IF p.token.type # "EOF" THEN [p EXCEPT !.err = SyntaxErr]
    ELSE p

parse(p) == CheckEOF(program(p))

---------------------------------------------------------------------------
(* Python's arithmetic on the runtime values *)

\* a / b of two rationals with b # 0, as a float
Quotient(a, b) ==
    LET n == a.num * b.den
        d == a.den * b.num
    IN  IF d < 0 THEN FloatV(-n, -d) ELSE FloatV(n, d)

\* left <op> right for the binary operators Python's int and float define:
\* an operand that is None raises TypeError, a zero divisor ZeroDivisionError
Arith(op, left, right) ==
    IF ~IsNumber(left) \/ ~IsNumber(right)
    THEN [value |-> NoneV, err |-> Raise("TypeError", "unsupported operand type(s)")]
    ELSE LET ints == left.k = "int" /\ right.k = "int"
             Num2(n, d) == IF ints THEN IntV(n) ELSE FloatV(n, d)
         IN  CASE op = "+" ->
                    [value |-> Num2(left.num * right.den + right.num * left.den,
                                    left.den * right.den),
                     err |-> NoErr]
               [] op = "-" ->
                    [value |-> Num2(left.num * right.den - right.num * left.den,
                                    left.den * right.den),
                     err |-> NoErr]
               [] op = "*" ->
                    [value |-> Num2(left.num * right.num, left.den * right.den),
                     err |-> NoErr]
               [] op = "/" ->
                    IF right.num = 0
                    THEN [value |-> NoneV,
                          err |-> Raise("ZeroDivisionError", "division by zero")]
                    ELSE [value |-> Quotient(left, right), err |-> NoErr]

\* -value
Negate(value) ==
    IF ~IsNumber(value)
    THEN [value |-> NoneV, err |-> Raise("TypeError", "bad operand type for unary -")]
    ELSE [value |-> [value EXCEPT !.num = -value.num], err |-> NoErr]

---------------------------------------------------------------------------
(* class Interpreter(NodeVisitor).  A visit returns [value, scope, err]:   *)
(* the value returned (NoneV for None), GLOBAL_SCOPE after it, and the     *)
(* exception raised.                                                       *)

EmptyScope == [n \in {} |-> NoneV]

Store(scope, name, value) ==
    [n \in DOMAIN scope \cup {name} |-> IF n = name THEN value ELSE scope[n]]

\* the classes for which Interpreter defines a visit_<class> method
Visitable == {"Compound", "Assign", "Var", "NoOp", "UnaryOp", "BinOp", "Num"}

\* the match statement of visit_BinOp: no case matches INTEGER_DIV, so the
\* method falls off its end and returns None
BinOpCase(type, left, right) ==
    CASE type = "PLUS" -> Arith("+", left, right)
      [] type = "MINUS" -> Arith("-", left, right)
      [] type = "MUL" -> Arith("*", left, right)
      [] type = "FLOAT_DIV" -> Arith("/", left, right)
      [] OTHER -> [value |-> NoneV, err |-> NoErr]

UnaryOpCaseIdentity(type, value) == [value |-> value, err |-> NoErr]

\* the match statement of visit_UnaryOp
UnaryOpCase(type, value) ==
    CASE type = "PLUS" -> [value |-> value, err |-> NoErr]
      [] type = "MINUS" -> Negate(value)
      [] OTHER -> [value |-> NoneV, err |-> NoErr]

RECURSIVE visit(_, _), visit_Compound(_, _, _), visit_CompoundBackwards(_, _, _)

\* a for loop over the children from the last to the first
visit_CompoundBackwards(children, k, scope) ==
    IF k > Len(children) THEN [value |-> NoneV, scope |-> scope, err |-> NoErr]
    ELSE LET c == visit(children[Len(children) + 1 - k], scope)
         IN  IF Failed(c) THEN c ELSE visit_CompoundBackwards(children, k + 1, c.scope)

\* the for loop of visit_Compound over children[k..]
visit_Compound(children, k, scope) ==
    IF k > Len(children) THEN [value |-> NoneV, scope |-> scope, err |-> NoErr]
    ELSE LET c == visit(children[k], scope)
         IN  IF Failed(c) THEN c ELSE visit_Compound(children, k + 1, c.scope)

visit_Assign(node, scope) ==
    LET name == node.children[1].token.value
        v == visit(node.children[2], scope)
    IN  IF Failed(v) THEN v
        ELSE [value |-> NoneV, scope |-> Store(v.scope, name, v.value), err |-> NoErr]

\* a visit_Var that binds a name it does not find to None
visit_VarBinding(node, scope) ==
    LET name == node.token.value
    IN  IF name \in DOMAIN scope
        THEN [value |-> scope[name], scope |-> scope, err |-> NoErr]
        ELSE [value |-> NoneV, scope |-> Store(scope, name, NoneV), err |-> NoErr]

visit_Var(node, scope) ==
    LET name == node.token.value
    IN  IF name \in DOMAIN scope
        THEN [value |-> scope[name], scope |-> scope, err |-> NoErr]
        ELSE [value |-> NoneV, scope |-> scope, err |-> Raise("NameError", name)]

visit_NoOp(node, scope) == [value |-> NoneV, scope |-> scope, err |-> NoErr]

visit_UnaryOp(node, scope) ==
    LET v == visit(node.children[1], scope)
    IN  IF Failed(v) THEN v
        ELSE LET r == UnaryOpCase(node.token.type, v.value)
             IN  [value |-> r.value, scope |-> v.scope, err |-> r.err]

visit_BinOp(node, scope) ==
    LET left == visit(node.children[1], scope)
        right == IF Failed(left) THEN left ELSE visit(node.children[2], left.scope)
    IN  IF Failed(right) THEN right
        ELSE LET r == BinOpCase(node.token.type, left.value, right.value)
             IN  [value |-> r.value, scope |-> right.scope, err |-> r.err]

visit_Num(node, scope) == [value |-> node.token.value, scope |-> scope, err |-> NoErr]

\* NodeVisitor.visit: getattr(self, 'visit_' + class name) raises
\* AttributeError for a class without a visitor method
visit(node, scope) ==
    IF node.node \notin Visitable
    THEN [value |-> NoneV, scope |-> scope,
          err |-> Raise("AttributeError", "visit_" \o node.node)]
    ELSE CASE node.node = "Compound" -> visit_Compound(node.children, 1, scope)
           [] node.node = "Assign" -> visit_Assign(node, scope)
           [] node.node = "Var" -> visit_Var(node, scope)
           [] node.node = "NoOp" -> visit_NoOp(node, scope)
           [] node.node = "UnaryOp" -> visit_UnaryOp(node, scope)
           [] node.node = "BinOp" -> visit_BinOp(node, scope)
           [] node.node = "Num" -> visit_Num(node, scope)

\* what interpret() leaves: the parser as parse() left it, and what the
\* visit of the tree gave
Interpreted(t, v) ==
    [lx |-> t.lx, token |-> t.token, tree |-> t.node, asked |-> t.asked,
     value |-> v.value, scope |-> v.scope, err |-> v.err]

\* self.visit(tree), which does not run when parse() raised
VisitParsed(t, scope) ==
    IF Failed(t)
    THEN [lx |-> t.lx, token |-> t.token, tree |-> NoTree, asked |-> t.asked,
          value |-> NoneV, scope |-> scope, err |-> t.err]
    ELSE Interpreted(t, visit(t.node, scope))

\* Interpreter.interpret: self.visit(self.parser.parse())
interpret(p, scope) == VisitParsed(parse(p), scope)

---------------------------------------------------------------------------
(* calcint-sdi.py: the syntax-directed calculator.  Its Lexer has the same *)
(* __init__, advance and skip_whitespace as the one above; its next() and  *)
(* integer() differ.  Its Interpreter evaluates while it parses: a state   *)
(* is [lx, token, err, value].                                             *)

RECURSIVE sdi_next(_), sdi_expr(_), sdi_ExprLoop(_), sdi_term(_),
          sdi_TermLoop(_), sdi_factor(_)

sdi_integer(lx) ==
    LET r == DigitRun(lx, <<>>)
    IN  [lx |-> r.lx, token |-> TokenWith("LITERAL", IntV(IntOfDigits(r.run)))]

sdi_CharType(c) ==
    CASE c = "(" -> "LPAREN"
      [] c = ")" -> "RPAREN"
      [] c = "*" -> "MUL"
      [] c = "/" -> "DIV"
      [] c = "+" -> "ADD"
      [] c = "-" -> "SUB"
      [] OTHER -> "None"

sdi_next(lx) ==
    IF lx.char = "None"
    THEN [lx |-> lx, token |-> TokenWith("EOF", "None"), err |-> NoErr]
    ELSE IF isspace(lx.char) THEN sdi_next(skip_whitespace(lx))
    ELSE IF isdigit(lx.char)
    THEN LET r == sdi_integer(lx) IN [lx |-> r.lx, token |-> r.token, err |-> NoErr]
    ELSE IF sdi_CharType(lx.char) # "None"
    THEN [lx |-> advance(lx), token |-> TokenWith(sdi_CharType(lx.char), lx.char),
          err |-> NoErr]
    ELSE [lx |-> lx, token |-> NoToken,
          err |-> CalcError("invalid character " \o lx.char)]

\* Interpreter.__init__
sdi_InterpreterNew(lx) ==
    LET n == sdi_next(lx)
    IN  [lx |-> n.lx, token |-> n.token, err |-> n.err, value |-> NoneV]

sdi_eat(p, expected) ==
    IF Failed(p) THEN p
    ELSE IF p.token.type = expected THEN Pull(p, sdi_next(p.lx))
    ELSE [p EXCEPT !.err = SyntaxErr]

\* return value
sdi_Return(p, value) == IF Failed(p) THEN p ELSE [p EXCEPT !.value = value]

\* result <op>= <right>, with r the state after the right operand
sdi_Update(op, left, r, a) ==
    IF Failed(r) THEN r ELSE [r EXCEPT !.value = a.value, !.err = a.err]
sdi_Augmented(op, left, r) == sdi_Update(op, left, r, Arith(op, left, r.value))

sdi_factor(p) ==
    IF Failed(p) THEN p
    ELSE IF p.token.type = "LITERAL"
    THEN sdi_Return(sdi_eat(p, "LITERAL"), p.token.value)
    ELSE sdi_eat(sdi_expr(sdi_eat(p, "LPAREN")), "RPAREN")

\* the while loop of term(): p.value is the running result
sdi_TermLoop(p) ==
    IF Failed(p) \/ p.token.type \notin {"MUL", "DIV"} THEN p
    ELSE sdi_TermLoop(sdi_Augmented(IF p.token.type = "MUL" THEN "*" ELSE "/",
                                    p.value, sdi_factor(sdi_eat(p, p.token.type))))

sdi_term(p) == sdi_TermLoop(sdi_factor(p))

\* the while loop of expr(): p.value is the running result
sdi_ExprLoop(p) ==
    IF Failed(p) \/ p.token.type \notin {"ADD", "SUB"} THEN p
    ELSE sdi_ExprLoop(sdi_Augmented(IF p.token.type = "ADD" THEN "+" ELSE "-",
                                    p.value, sdi_term(sdi_eat(p, p.token.type))))

sdi_expr(p) == sdi_ExprLoop(sdi_term(p))

\* one round of main(): Lexer(text), Interpreter(lexer), interpreter.expr()
sdi_main(t) ==
    LET l == LexerNew(t)
        i == sdi_InterpreterNew(l.lx)
        r == IF Failed(i) THEN i ELSE sdi_expr(i)
    IN  IF Failed(l) THEN [ran |-> TRUE, value |-> NoneV, err |-> l.err]
        ELSE [ran |-> TRUE, value |-> IF Failed(r) THEN NoneV ELSE r.value,
              err |-> r.err]

---------------------------------------------------------------------------
(* rle.py: compress() and decompress().  A byte string is a sequence of    *)
(* numbers in 0..MaxByte.  One iteration of a loop is one step; rle.pc is  *)
(* where the caller is: "start", "compress" (in compress()), "compressed", *)
(* "decompress" (in decompress()), "done", or "failed" after an exception. *)
(* rle.input is the data the caller started from, rle.data the argument    *)
(* of the call that is running, or what the last call returned.            *)

MaxByte == 255    \* struct.Struct('<B') packs 0..255; the longest run of one record

NoRle ==
    [pc |-> "idle", input |-> <<>>, data |-> <<>>, out |-> <<>>,
     i |-> 0, run_start |-> 0, run_char |-> 0, err |-> NoErr]

\* tobyte.pack(v): one byte, or struct.error
pack(v) == IF v \in 0..MaxByte THEN <<v>> ELSE <<>>
PackErr(v) ==
    IF v \in 0..MaxByte THEN NoErr
    ELSE Raise("struct.error", "ubyte format requires 0 <= number <= 255")

\* tobyte.pack(c) * n
Times(c, n) == [k \in 1..n |-> c]

\* out.write(tobyte.pack(run_char)*2 + tobyte.pack(length))
WriteEscaped(out, run_char, length) ==
    [out |-> out \o pack(run_char) \o pack(run_char) \o pack(length),
     err |-> PackErr(length)]

WriteRunFromThree(out, run_char, length) ==
    IF length >= 3 THEN WriteEscaped(out, run_char, length)
    ELSE [out |-> out \o Times(run_char, length), err |-> NoErr]

\* the if/else on length >= 2 of compress(), lines 20-23 and 33-36
WriteRun(out, run_char, length) ==
    IF length >= 2 THEN WriteEscaped(out, run_char, length)
    ELSE [out |-> out \o Times(run_char, length), err |-> NoErr]

\* what one iteration of the for loop leaves: w is what the write gave
AfterWrite(w, run_start, run_char) ==
    [out |-> w.out, err |-> w.err, run_start |-> run_start, run_char |-> run_char]

\* the body of the for loop of compress(), for the index i and c = data[i]:
\* [out, run_start, run_char, err]
CompressBody(r, c) ==
    IF c # r.run_char
    THEN AfterWrite(WriteRun(r.out, r.run_char, r.i - r.run_start), r.i, c)
    ELSE IF r.i - r.run_start = MaxByte
    THEN AfterWrite(WriteEscaped(r.out, r.run_char, r.i - r.run_start), r.i, r.run_char)
    ELSE [out |-> r.out, err |-> NoErr, run_start |-> r.run_start, run_char |-> r.run_char]

\* the body of the while loop of decompress(): [out, i]
DecompressBody(r) ==
    IF r.i < Len(r.data) - 2 /\ r.data[r.i + 1] = r.data[r.i + 2]
    THEN [out |-> r.out \o Times(r.data[r.i + 1], r.data[r.i + 3]), i |-> r.i + 3]
    ELSE [out |-> r.out \o pack(r.data[r.i + 1]), i |-> r.i + 1]

\* data = compress(data) is called
RleCallCompress ==
    /\ rle.pc = "start"
    /\ rle' = [rle EXCEPT !.pc = "compress", !.out = <<>>, !.i = 0,
                          !.run_start = 0, !.run_char = 0]
    /\ UNCHANGED <<pc, text, lexer, token, tree, result, GLOBAL_SCOPE, err, calls, sdi>>

\* one iteration of the for loop of compress()
RleCompressStep ==
    /\ rle.pc = "compress"
    /\ rle.i < Len(rle.data)
    /\ \E b \in {CompressBody(rle, rle.data[rle.i + 1])} :
           rle' = [rle EXCEPT !.pc = IF Failed(b) THEN "failed" ELSE "compress",
                              !.out = b.out, !.run_start = b.run_start,
                              !.run_char = b.run_char, !.err = b.err,
                              !.i = rle.i + 1]
    /\ UNCHANGED <<pc, text, lexer, token, tree, result, GLOBAL_SCOPE, err, calls, sdi>>

\* the else clause of the for loop, and the return of compress()
RleCompressReturn ==
    /\ rle.pc = "compress"
    /\ rle.i = Len(rle.data)
    /\ \E w \in {WriteRun(rle.out, rle.run_char, Len(rle.data) - rle.run_start)} :
           rle' = [rle EXCEPT !.pc = IF Failed(w) THEN "failed" ELSE "compressed",
                              !.data = IF Failed(w) THEN rle.data ELSE w.out,
                              !.out = <<>>, !.err = w.err]
    /\ UNCHANGED <<pc, text, lexer, token, tree, result, GLOBAL_SCOPE, err, calls, sdi>>

\* data = decompress(data) is called
RleCallDecompress ==
    /\ rle.pc = "compressed"
    /\ rle' = [rle EXCEPT !.pc = "decompress", !.out = <<>>, !.i = 0]
    /\ UNCHANGED <<pc, text, lexer, token, tree, result, GLOBAL_SCOPE, err, calls, sdi>>

\* one iteration of the while loop of decompress()
RleDecompressStep ==
    /\ rle.pc = "decompress"
    /\ rle.i < Len(rle.data)
    /\ \E b \in {DecompressBody(rle)} :
           rle' = [rle EXCEPT !.out = b.out, !.i = b.i]
    /\ UNCHANGED <<pc, text, lexer, token, tree, result, GLOBAL_SCOPE, err, calls, sdi>>

\* the return of decompress()
RleDecompressReturn ==
    /\ rle.pc = "decompress"
    /\ rle.i >= Len(rle.data)
    /\ rle' = [rle EXCEPT !.pc = "done", !.data = rle.out, !.out = <<>>]
    /\ UNCHANGED <<pc, text, lexer, token, tree, result, GLOBAL_SCOPE, err, calls, sdi>>

---------------------------------------------------------------------------
(* The driver: the statements of main() and script(), one action each, and *)
(* the public methods a caller can call on the objects it holds.           *)

NoSdi == [ran |-> FALSE, value |-> NoneV, err |-> NoErr]

InitWith(T) ==
    /\ pc = "start"
    /\ text \in T
    /\ lexer = NoLexer
    /\ token = NoToken
    /\ tree = NoTree
    /\ result = NoneV
    /\ GLOBAL_SCOPE = EmptyScope
    /\ err = NoErr
    /\ calls = 0
    /\ sdi = NoSdi
    /\ rle = NoRle

\* lexer = Lexer(text)
NewLexer ==
    /\ pc = "start"
    /\ \E r \in {LexerNew(text)} :
           /\ lexer' = r.lx
           /\ err' = r.err
           /\ pc' = IF Failed(r) THEN "failed" ELSE "lexer"
    /\ UNCHANGED <<text, token, tree, result, GLOBAL_SCOPE, calls, sdi, rle>>

\* token = lexer.next(), called by the owner of the lexer
CallNext ==
    /\ pc = "lexer"
    /\ calls < MaxNextCalls
    /\ \E r \in {next(lexer)} :
           /\ lexer' = r.lx
           /\ token' = IF Failed(r) THEN token ELSE r.token
           /\ err' = r.err
           /\ pc' = IF Failed(r) THEN "failed" ELSE "lexer"
    /\ calls' = calls + 1
    /\ UNCHANGED <<text, tree, result, GLOBAL_SCOPE, sdi, rle>>

\* parser = Parser(lexer)
NewParser ==
    /\ pc = "lexer"
    /\ calls = 0
    /\ \E p \in {ParserNew(lexer)} :
           /\ lexer' = p.lx
           /\ token' = IF Failed(p) THEN token ELSE p.token
           /\ err' = p.err
           /\ pc' = IF Failed(p) THEN "failed" ELSE "parser"
           /\ calls' = calls + p.asked
    /\ UNCHANGED <<text, tree, result, GLOBAL_SCOPE, sdi, rle>>

ParserState ==
    [lx |-> lexer, token |-> token, err |-> NoErr, node |-> NoTree, made |-> 0,
     asked |-> 0, eaten |-> 0]

\* tree = parser.parse()
CallParse ==
    /\ pc = "parser"
    /\ \E p \in {parse(ParserState)} :
           /\ lexer' = p.lx
           /\ token' = p.token
           /\ tree' = IF Failed(p) THEN NoTree ELSE p.node
           /\ err' = p.err
           /\ pc' = IF Failed(p) THEN "failed" ELSE "parsed"
           /\ calls' = calls + p.asked
    /\ UNCHANGED <<text, result, GLOBAL_SCOPE, sdi, rle>>

\* interpreter = Interpreter(parser)
NewInterpreter ==
    /\ pc = "parser"
    /\ GLOBAL_SCOPE' = EmptyScope
    /\ pc' = "interp"
    /\ UNCHANGED <<text, lexer, token, tree, result, err, calls, sdi, rle>>

\* result = interpreter.interpret()
CallInterpret ==
    /\ pc = "interp"
    /\ \E r \in {interpret(ParserState, GLOBAL_SCOPE)} :
           /\ lexer' = r.lx
           /\ token' = r.token
           /\ tree' = r.tree
           /\ result' = r.value
           /\ GLOBAL_SCOPE' = r.scope
           /\ err' = r.err
           /\ pc' = IF Failed(r) THEN "failed" ELSE "done"
           /\ calls' = calls + r.asked
    /\ UNCHANGED <<text, sdi, rle>>

\* tree = interpreter.parser.expr()
CallExpr ==
    /\ pc = "interp"
    /\ \E p \in {expr(ParserState)} :
           /\ lexer' = p.lx
           /\ token' = p.token
           /\ tree' = IF Failed(p) THEN NoTree ELSE p.node
           /\ err' = p.err
           /\ pc' = IF Failed(p) THEN "failed" ELSE "tree"
           /\ calls' = calls + p.asked
    /\ UNCHANGED <<text, result, GLOBAL_SCOPE, sdi, rle>>

\* result = interpreter.visit(tree)
CallVisit ==
    /\ pc = "tree"
    /\ \E r \in {visit(tree, GLOBAL_SCOPE)} :
           /\ result' = r.value
           /\ GLOBAL_SCOPE' = r.scope
           /\ err' = r.err
           /\ pc' = IF Failed(r) THEN "failed" ELSE "done"
    /\ UNCHANGED <<text, lexer, token, tree, calls, sdi, rle>>

\* calcint-sdi.py, lines 175-186: a non-empty line is evaluated
SdiMain ==
    /\ ~sdi.ran
    /\ text # <<>>
    /\ sdi' = sdi_main(text)
    /\ UNCHANGED <<pc, text, lexer, token, tree, result, GLOBAL_SCOPE, err, calls, rle>>

---------------------------------------------------------------------------
(* Source texts *)

RECURSIVE SeqsUpTo(_, _)
SeqsUpTo(S, n) ==
    IF n = 0 THEN {<<>>}
    ELSE LET shorter == SeqsUpTo(S, n - 1)
         IN  shorter \cup {Append(s, c) : s \in shorter, c \in S}

\* the words of a text, joined by single spaces
RECURSIVE Join(_)
Join(words) ==
    IF words = <<>> THEN <<>>
    ELSE IF Len(words) = 1 THEN words[1]
    ELSE words[1] \o <<" ">> \o Join(Tail(words))

---------------------------------------------------------------------------
(* The lexer alone: Lexer(text), then next() again and again *)

LexAlphabet == {"5", "7", ".", " ", "x", "+", ":", "=", "#"}
LexTexts == SeqsUpTo(LexAlphabet, MaxTextLen)

InitLexer == InitWith(LexTexts)
NextLexer == NewLexer \/ CallNext
SpecLexer == InitLexer /\ [][NextLexer]_vars

---------------------------------------------------------------------------
(* Expressions: parser.expr() and interpreter.visit() on an expression     *)
(* text, and calcint-sdi.py on the same text.                              *)

Literals == {<<"2">>, <<"3">>, <<"4">>, <<"1", "0">>}
SignWords == {<<"+">>, <<"-">>}
BinaryWords == {<<"+">>, <<"-">>, <<"*">>}

\* ExprLevel(tab): the operands (O) and the expressions (E) of exactly
\* Len(tab) + 1 words built from literals, binary + - * and parentheses, from
\* those of 1..Len(tab) words in tab: an expression is
\* operand (operator operand)*, an operand is a literal or ( expression )
ExprLevel(tab) ==
    LET n == Len(tab) + 1
        O == IF n = 1 THEN {<<l>> : l \in Literals}
             ELSE IF n >= 3
             THEN {<<<<"(">>>> \o e \o <<<<")">>>> : e \in tab[n - 2].E}
             ELSE {}
        E == O \cup
             UNION {{e \o <<op>> \o o : e \in tab[i].E, op \in BinaryWords,
                                        o \in tab[n - 1 - i].O} : i \in 1..(n - 2)}
    IN  [O |-> O, E |-> E]

RECURSIVE ExprTable(_, _)
ExprTable(tab, n) ==
    IF Len(tab) >= n THEN tab ELSE ExprTable(Append(tab, ExprLevel(tab)), n)

BinaryExprs ==
    LET tab == ExprTable(<<>>, MaxExprLen)
    IN  UNION {tab[n].E : n \in 1..MaxExprLen}

\* a chain of 1..MaxSigns signs before a literal or a parenthesised expression,
\* alone or as the right operand of a binary operator
SignChains == SeqsUpTo(SignWords, MaxSigns) \ {<<>>}
SignedFactors ==
    {c \o f : c \in SignChains,
              f \in {<<<<"5">>>>, <<<<"(">>, <<"2">>, <<"-">>, <<"5">>, <<")">>>>}}
UnaryExprs ==
    SignedFactors \cup {<<<<"2">>, op>> \o f : op \in {<<"-">>, <<"*">>}, f \in SignedFactors}

\* a division of two signed literals or of a literal by a difference
DivWords == {<<"D", "I", "V">>, <<"/">>}
DivOperands == {<<<<"7">>>>, <<<<"0">>>>, <<<<"2">>>>, <<<<"-">>, <<"7">>>>}
DivExprs ==
    {a \o <<op>> \o b : a \in DivOperands, op \in DivWords,
                       b \in DivOperands \cup {<<<<"(">>, <<"2">>, <<"-">>, <<"2">>, <<")">>>>}}

ExprTexts == {Join(w) : w \in BinaryExprs \cup UnaryExprs \cup DivExprs}

InitExpr == InitWith(ExprTexts)
NextExpr == NewLexer \/ NewParser \/ NewInterpreter \/ CallExpr \/ CallVisit \/ SdiMain
SpecExpr == InitExpr /\ [][NextExpr]_vars

---------------------------------------------------------------------------
(* Whole programs: Lexer(text), Parser(lexer), then parser.parse() or      *)
(* Interpreter(parser).interpret(), as main() and script() do              *)

MaxStmts == 2

\* the reserved words, as they are written
K_PROGRAM == <<"P", "R", "O", "G", "R", "A", "M">>
K_VAR == <<"V", "A", "R">>
K_INTEGER == <<"I", "N", "T", "E", "G", "E", "R">>
K_REAL == <<"R", "E", "A", "L">>
K_BEGIN == <<"B", "E", "G", "I", "N">>
K_END == <<"E", "N", "D">>
K_DIV == <<"D", "I", "V">>

ProgramText ==
    <<"P", "R", "O", "G", "R", "A", "M", " ", "T", "e", "s", "t", ";", " ",
      "V", "A", "R", " ", "a", ",", " ", "b", " ", ":", " ", "I", "N", "T",
      "E", "G", "E", "R", ";", " ", "B", "E", "G", "I", "N", " ", "a", " ",
      ":", "=", " ", "2", " ", "+", " ", "3", " ", "*", " ", "(", "4", " ",
      "-", " ", "1", ")", ";", " ", "b", " ", ":", "=", " ", "a", " ", "D",
      "I", "V", " ", "2", " ", "E", "N", "D", ".">>

\* the parts programs are put together from, each a list of words
HeaderWords == <<K_PROGRAM, <<"T">>, <<";">>>>
DeclarationWords ==
    {<<>>,
     <<K_VAR>>,
     <<K_VAR, <<"a">>, <<",">>, <<"b">>, <<":">>, K_INTEGER, <<";">>,
       <<"x">>, <<":">>, K_REAL, <<";">>>>}
StatementWords ==
    {<<>>,
     <<<<"a">>, <<":", "=">>, <<"2">>>>,
     <<<<"b">>, <<":", "=">>, <<"a">>, K_DIV, <<"2">>>>,
     <<<<"x">>, <<":", "=">>, <<"y">>>>,
     <<<<"a">>, <<":", "=">>, <<"7">>, K_DIV, <<"0">>>>,
     <<<<"a">>, <<":", "=">>, <<"2">>, <<"b">>>>,
     <<K_BEGIN, <<"b">>, <<":", "=">>, <<"a">>, <<"+">>, <<"1">>, K_END>>}
TailWords == {<<<<".">>>>, <<>>, <<<<".">>, <<"x">>>>}

\* the lists of 1..n statements with a ; between two statements
RECURSIVE StatementLists(_)
StatementLists(n) ==
    IF n = 1 THEN StatementWords
    ELSE LET shorter == StatementLists(n - 1)
         IN  shorter \cup {l \o <<<<";">>>> \o s : l \in shorter, s \in StatementWords}

\* the program of the example, a program without a name, and the programs
\* put together from the parts
ProgramTexts ==
    {ProgramText, Join(<<K_PROGRAM, <<";">>, K_BEGIN, K_END, <<".">>>>)}
    \cup {Join(HeaderWords \o d \o <<K_BEGIN>> \o l \o <<K_END>> \o t) :
            d \in DeclarationWords, l \in StatementLists(MaxStmts), t \in TailWords}

Init == InitWith(ProgramTexts)
Next == NewLexer \/ NewParser \/ CallParse \/ NewInterpreter \/ CallInterpret
Spec == Init /\ [][Next]_vars

---------------------------------------------------------------------------
(* What the claims refer to *)

\* the tokens next() gives for a text, up to the end of input or the first
\* lexical error
RECURSIVE TokensFrom(_, _)
TokensFrom(lx, acc) ==
    LET n == next(lx)
    IN  IF Failed(n) THEN [toks |-> acc, err |-> n.err]
        ELSE IF n.token.type = "EOF" THEN [toks |-> acc, err |-> NoErr]
        ELSE TokensFrom(n.lx, Append(acc, n.token))

Lexed(t) ==
    IF t = <<>> THEN [toks |-> <<>>, err |-> LexerNew(t).err]
    ELSE TokensFrom(LexerNew(t).lx, <<>>)

TokensOf(t) == Lexed(t).toks

\* the visit of the tree has been made: it returned (pc = "done") or raised
Visited == tree # NoTree /\ pc \in {"done", "failed"}

\* how many parentheses are open before toks[i]
RECURSIVE Depth(_, _)
Depth(toks, i) ==
    IF i <= 1 THEN 0
    ELSE Depth(toks, i - 1)
         + (IF toks[i - 1].type = "LPAREN" THEN 1
            ELSE IF toks[i - 1].type = "RPAREN" THEN -1 ELSE 0)

\* the place of the last operator of the given types outside parentheses, or 0
LastTop(toks, types) ==
    LET at == {i \in 1..Len(toks) : toks[i].type \in types /\ Depth(toks, i) = 0}
    IN  IF at = {} THEN 0 ELSE CHOOSE i \in at : \A j \in at : j <= i

Before(toks, i) == SubSeq(toks, 1, i - 1)
After(toks, i) == SubSeq(toks, i + 1, Len(toks))

NoRef == [ok |-> FALSE, val |-> 0]

RefApply(type, l, r) ==
    IF ~l.ok \/ ~r.ok THEN NoRef
    ELSE [ok |-> TRUE,
          val |-> CASE type = "PLUS" -> l.val + r.val
                    [] type = "MINUS" -> l.val - r.val
                    [] type = "MUL" -> l.val * r.val]

\* The reference evaluator of an expression over integer literals, binary
\* + - * and parentheses: the last + or - outside parentheses is applied
\* last; without one, the last * outside parentheses; without one, the
\* expression is a literal or a parenthesised expression.  ok is FALSE for
\* a token sequence that is no such expression.
RECURSIVE Ref(_)
Ref(toks) ==
    IF toks = <<>> THEN NoRef
    ELSE LET i == LastTop(toks, {"PLUS", "MINUS"})
             j == LastTop(toks, {"MUL"})
         IN  IF i > 0 THEN RefApply(toks[i].type, Ref(Before(toks, i)), Ref(After(toks, i)))
             ELSE IF j > 0 THEN RefApply("MUL", Ref(Before(toks, j)), Ref(After(toks, j)))
             ELSE IF Len(toks) = 1
             THEN IF toks[1].type = "INTEGER_CONST"
                  THEN [ok |-> TRUE, val |-> toks[1].value.num] ELSE NoRef
             ELSE IF toks[1].type = "LPAREN" /\ toks[Len(toks)].type = "RPAREN"
             THEN Ref(SubSeq(toks, 2, Len(toks) - 1))
             ELSE NoRef

\* the quotient of a by b # 0 truncated toward zero
TruncDiv(a, b) ==
    IF (a >= 0) = (b > 0) THEN Abs(a) \div Abs(b) ELSE -(Abs(a) \div Abs(b))

\* the value a sub-tree evaluates to in the empty store
ValueOf(node) == visit(node, EmptyScope)
EvaluatesTo(node, kinds) ==
    ~Failed(ValueOf(node)) /\ ValueOf(node).value.k \in kinds

IsDivision == tree.node = "BinOp" /\ tree.token.type \in {"INTEGER_DIV", "FLOAT_DIV"}

---------------------------------------------------------------------------
(* C5: a division, DIV or /, whose right operand evaluates to zero fails   *)
(* with an arithmetic error and returns no value, neither a number nor     *)
(* None.                                                                   *)
C5_DivisionByZeroFails ==
    (/\ Visited
     /\ IsDivision
     /\ EvaluatesTo(tree.children[1], {"int", "float"})
     /\ EvaluatesTo(tree.children[2], {"int", "float"})
     /\ ValueOf(tree.children[2]).value.num = 0)
    => (pc = "failed" /\ err.kind = "ZeroDivisionError")

(* C6: DIV on two integers a and b, b # 0, returns the integer quotient of *)
(* a by b truncated toward zero, as an integer.                            *)
C6_IntegerDivisionTruncates ==
    (/\ Visited
     /\ tree.node = "BinOp"
     /\ tree.token.type = "INTEGER_DIV"
     /\ EvaluatesTo(tree.children[1], {"int"})
     /\ EvaluatesTo(tree.children[2], {"int"})
     /\ ValueOf(tree.children[2]).value.num # 0)
    => (/\ pc = "done"
        /\ result = IntV(TruncDiv(ValueOf(tree.children[1]).value.num,
                                  ValueOf(tree.children[2]).value.num)))

(* C7: for a well-formed expression over integer literals, + - * and       *)
(* parentheses, parsing and evaluating it raises nothing and gives the     *)
(* value of the reference evaluator (the operator * binds tighter than +   *)
(* and -, operators of equal precedence group left to right, a             *)
(* parenthesised expression is evaluated as a unit),                       *)
(* in pasint.py and in calcint-sdi.py.                                     *)
C7_PrecedenceAndAssociativity ==
    Ref(TokensOf(text)).ok =>
        /\ pc # "failed"
        /\ pc = "done" => result = IntV(Ref(TokensOf(text)).val)
        /\ sdi.ran => (sdi.err = NoErr /\ sdi.value = IntV(Ref(TokensOf(text)).val))

C7_Witness ==
    /\ text = Join(<<<<"2">>, <<"+">>, <<"3">>, <<"*">>, <<"4">>>>)
    /\ pc = "done"
    /\ result = IntV(14)
    /\ sdi.ran
    /\ sdi.value = IntV(14)

\* how many sign tokens stand at toks[s], toks[s + 1], ...
SignRun(toks, s) ==
    CHOOSE k \in 0..(Len(toks) - s + 1) :
        /\ \A i \in s..(s + k - 1) : toks[i].type \in {"PLUS", "MINUS"}
        /\ s + k > Len(toks) \/ toks[s + k].type \notin {"PLUS", "MINUS"}

\* where the chain of signs of the text starts: at its first token, or after
\* a literal and a binary - or *; 0 when the text has no such chain
ChainStart(toks) ==
    IF toks = <<>> THEN 0
    ELSE IF toks[1].type \in {"PLUS", "MINUS"} THEN 1
    ELSE IF /\ Len(toks) >= 3
            /\ toks[1].type = "INTEGER_CONST"
            /\ toks[2].type \in {"MINUS", "MUL"}
            /\ toks[3].type \in {"PLUS", "MINUS"}
    THEN 3
    ELSE 0

\* the factor the chain stands before: a literal or a parenthesised expression
ChainOperand(toks) ==
    SubSeq(toks, ChainStart(toks) + SignRun(toks, ChainStart(toks)), Len(toks))

IsSignedFactor(toks) ==
    /\ ChainStart(toks) > 0
    /\ Ref(ChainOperand(toks)).ok
    /\ LastTop(ChainOperand(toks), {"PLUS", "MINUS", "MUL"}) = 0

\* v negated once for each - among toks[s..s + k - 1]
RECURSIVE Signed(_, _, _, _)
Signed(toks, s, k, v) ==
    IF k = 0 THEN v
    ELSE IF toks[s].type = "MINUS" THEN -Signed(toks, s + 1, k - 1, v)
    ELSE Signed(toks, s + 1, k - 1, v)

\* node is k nested UnaryOp nodes carrying the signs toks[s..s + k - 1],
\* outermost first, around a node that is no UnaryOp and evaluates to v
RECURSIVE IsChain(_, _, _, _, _)
IsChain(node, toks, s, k, v) ==
    IF k = 0 THEN node.node # "UnaryOp" /\ ValueOf(node).value = IntV(v)
    ELSE /\ node.node = "UnaryOp"
         /\ node.token.type = toks[s].type
         /\ IsChain(node.children[1], toks, s + 1, k - 1, v)

ChainValue(toks) ==
    Signed(toks, ChainStart(toks), SignRun(toks, ChainStart(toks)),
           Ref(ChainOperand(toks)).val)

(* C8: a chain of n >= 1 unary signs before a factor is accepted by the    *)
(* parser as n nested UnaryOp nodes, outermost sign first, and evaluates   *)
(* to the operand negated once for each - of the chain.                    *)
C8_UnaryChain ==
    LET toks == TokensOf(text)
        s == ChainStart(toks)
        k == SignRun(toks, s)
        v == Ref(ChainOperand(toks)).val
    IN  IsSignedFactor(toks) =>
            /\ pc # "failed"
            /\ pc \in {"tree", "done"} =>
                  /\ token.type = "EOF"
                  /\ IsChain(IF s = 1 THEN tree ELSE tree.children[2], toks, s, k, v)
            /\ pc = "done" =>
                  result = IntV(IF s = 1 THEN ChainValue(toks)
                                ELSE IF toks[2].type = "MINUS"
                                THEN toks[1].value.num - ChainValue(toks)
                                ELSE toks[1].value.num * ChainValue(toks))

C8_Witness ==
    /\ text = Join(<<<<"-">>, <<"-">>, <<"5">>>>)
    /\ pc = "done"
    /\ tree.node = "UnaryOp"
    /\ tree.children[1].node = "UnaryOp"
    /\ result = IntV(5)

---------------------------------------------------------------------------
(* The lexer alone *)

\* the 1-based place of the first character at or after cursor pos that is
\* no space, Len(t) + 1 when there is none
TokenStart(t, pos) ==
    CHOOSE i \in (pos + 1)..(Len(t) + 1) :
        /\ i > Len(t) \/ t[i] \notin Spaces
        /\ \A j \in (pos + 1)..(i - 1) : t[j] \in Spaces

\* the 1-based place after the maximal run of digits that starts at t[i]
DigitsEnd(t, i) ==
    CHOOSE e \in i..(Len(t) + 1) :
        /\ e > Len(t) \/ t[e] \notin Digits
        /\ \A j \in i..(e - 1) : t[j] \in Digits

\* a step that is one call of next() by the owner of the lexer
IsCallNext == pc = "lexer" /\ calls' = calls + 1

(* C9: a Lexer can be constructed for every source string, the empty one   *)
(* included, and once next() has returned an EOF token every later call    *)
(* returns an EOF token and leaves the cursor where it is.                 *)
C9_EOFIsTerminal ==
    [][/\ pc = "start" => pc' = "lexer"
       /\ (IsCallNext /\ token.type = "EOF") =>
             (pc' = "lexer" /\ token'.type = "EOF" /\ lexer' = lexer)]_vars

(* C10: next() at a digit emits a float literal only if the maximal digit  *)
(* run is followed by '.' and at least one more digit; otherwise it emits  *)
(* an integer literal for the digit run alone and leaves the cursor on the *)
(* character after the run, not consuming a '.'.                           *)
C10_FloatNeedsFractionDigit ==
    [][LET i == TokenStart(text, lexer.pos)
           e == DigitsEnd(text, i)
           fraction == /\ e + 1 <= Len(text)
                       /\ text[e] = "."
                       /\ text[e + 1] \in Digits
       IN  (IsCallNext /\ i <= Len(text) /\ text[i] \in Digits) =>
               /\ pc' = "lexer"
               /\ fraction => token'.type = "REAL_CONST"
               /\ ~fraction =>
                     /\ token' = TokenWith("INTEGER_CONST",
                                           IntV(IntOfDigits(SubSeq(text, i, e - 1))))
                     /\ lexer'.pos = e - 1]_vars

---------------------------------------------------------------------------
(* Whole programs.  The grammar of the module docstring (pasint.py, lines  *)
(* 3-40), as a recogniser that is no parser: for a sequence ty of token    *)
(* types and a place i, G_<rule>(ty, i) is the set of places j such that   *)
(* ty[i..j - 1] is derivable from <rule>.                                  *)

TypesOf(toks) == [i \in 1..Len(toks) |-> toks[i].type]

\* the places after a token of one of the types that stands at a place of S
Past(ty, S, types) == {j + 1 : j \in {k \in S : k <= Len(ty) /\ ty[k] \in types}}

RECURSIVE G_factor(_, _), G_term(_, _), G_termMore(_, _), G_expr(_, _),
          G_exprMore(_, _), G_statement(_, _), G_statement_list(_, _),
          G_statement_listMore(_, _), G_compound_statement(_, _),
          G_names(_, _), G_declarationsMore(_, _)

G_factor(ty, i) ==
    IF i > Len(ty) THEN {}
    ELSE IF ty[i] \in {"PLUS", "MINUS"} THEN G_factor(ty, i + 1)
    ELSE IF ty[i] \in {"INTEGER_CONST", "REAL_CONST", "ID"} THEN {i + 1}
    ELSE IF ty[i] = "LPAREN" THEN Past(ty, G_expr(ty, i + 1), {"RPAREN"})
    ELSE {}

G_termMore(ty, S) ==
    LET more == UNION {G_factor(ty, j) :
                         j \in Past(ty, S, {"MUL", "INTEGER_DIV", "FLOAT_DIV"})}
    IN  IF more \subseteq S THEN S ELSE G_termMore(ty, S \cup more)

G_term(ty, i) == G_termMore(ty, G_factor(ty, i))

G_exprMore(ty, S) ==
    LET more == UNION {G_term(ty, j) : j \in Past(ty, S, {"PLUS", "MINUS"})}
    IN  IF more \subseteq S THEN S ELSE G_exprMore(ty, S \cup more)

G_expr(ty, i) == G_exprMore(ty, G_term(ty, i))

G_assignment_statement(ty, i) ==
    IF i + 1 <= Len(ty) /\ ty[i] = "ID" /\ ty[i + 1] = "ASSIGN"
    THEN G_expr(ty, i + 2) ELSE {}

G_statement(ty, i) ==
    G_compound_statement(ty, i) \cup G_assignment_statement(ty, i) \cup {i}

G_statement_listMore(ty, S) ==
    LET more == UNION {G_statement(ty, j) : j \in Past(ty, S, {"SEMI"})}
    IN  IF more \subseteq S THEN S ELSE G_statement_listMore(ty, S \cup more)

G_statement_list(ty, i) == G_statement_listMore(ty, G_statement(ty, i))

G_compound_statement(ty, i) ==
    IF i <= Len(ty) /\ ty[i] = "BEGIN"
    THEN Past(ty, G_statement_list(ty, i + 1), {"END"}) ELSE {}

\* ID (COMMA ID)*
G_names(ty, i) ==
    IF i <= Len(ty) /\ ty[i] = "ID"
    THEN {i + 1} \cup UNION {G_names(ty, j) : j \in Past(ty, {i + 1}, {"COMMA"})}
    ELSE {}

G_variable_declaration(ty, i) ==
    Past(ty, Past(ty, G_names(ty, i), {"COLON"}), {"INTEGER", "REAL"})

\* (variable_declaration SEMI)+
G_declarationsMore(ty, i) ==
    LET one == Past(ty, G_variable_declaration(ty, i), {"SEMI"})
    IN  one \cup UNION {G_declarationsMore(ty, j) : j \in one}

G_declarations(ty, i) ==
    {i} \cup UNION {G_declarationsMore(ty, j) : j \in Past(ty, {i}, {"VAR"})}

G_block(ty, i) == UNION {G_compound_statement(ty, j) : j \in G_declarations(ty, i)}

G_program(ty) ==
    Past(ty,
         UNION {G_block(ty, j) :
                  j \in Past(ty, Past(ty, Past(ty, {1}, {"PROGRAM"}), {"ID"}), {"SEMI"})},
         {"DOT"})

\* the text is a sequence of tokens, and one the grammar derives from program
IsTokens(t) == Lexed(t).err = NoErr
Derivable(t) == IsTokens(t) /\ Len(TokensOf(t)) + 1 \in G_program(TypesOf(TokensOf(t)))

\* a step that is the call parser.parse(), or interpreter.interpret()
IsCallParse == pc = "parser" /\ pc' \in {"parsed", "failed"}
IsCallInterpret == pc = "interp" /\ pc' \in {"done", "failed"}

\* the parser where program() has it after PROGRAM variable SEMI, after the
\* declarations, and after the compound statement
AtBlock == eat(variable(eat(ParserState, "PROGRAM")), "SEMI")
AtCompound == declarations(AtBlock)
AtDot == compound_statement(AtCompound)

(* C1: the pipeline Lexer, Parser, Interpreter.interpret() on the program  *)
(* 'PROGRAM Test; VAR a, b : INTEGER; BEGIN a := 2 + 3 * (4 - 1);          *)
(* b := a DIV 2 END.' finishes without an error and leaves the store       *)
(* exactly {a: 11, b: 5}.                                                  *)
C1_ProgramLeavesStore ==
    text = ProgramText =>
        /\ pc # "failed"
        /\ pc = "done" =>
              /\ DOMAIN GLOBAL_SCOPE = {"a", "b"}
              /\ GLOBAL_SCOPE["a"] = IntV(11)
              /\ GLOBAL_SCOPE["b"] = IntV(5)

(* C2: for every token sequence derivable from program, parse() raises no  *)
(* error and returns a Program node whose one child is the Block of the    *)
(* declarations followed by the compound statement.                        *)
C2_ParseIsTotal ==
    [][(IsCallParse /\ Derivable(text)) =>
          /\ pc' = "parsed"
          /\ err' = NoErr
          /\ tree' = Program(AtBlock.node.token.value,
                             Block(AtCompound.node \o <<AtDot.node>>))]_vars

(* C3: for every token sequence the grammar does not derive from program,  *)
(* parse() fails with CalcError 'invalid syntax' and returns no tree; so   *)
(* for a missing final '.', a token after the final '.', a VAR followed by *)
(* no declaration, and an identifier after a statement list.               *)
C3_ParseRejects ==
    [][(IsCallParse /\ IsTokens(text) /\ ~Derivable(text)) =>
          /\ pc' = "failed"
          /\ err' = SyntaxErr
          /\ tree' = NoTree]_vars

\* Statements run in the order they are written.  The name of the first
\* variable, from toks[i] on, that an expression reads while no assignment
\* to it has been completed, "None" when there is none; target is the
\* variable the statement at hand assigns.
RECURSIVE FirstUnassignedRead(_, _, _, _)
FirstUnassignedRead(toks, i, assigned, target) ==
    IF i > Len(toks) THEN "None"
    ELSE IF toks[i].type = "ID"
    THEN IF i < Len(toks) /\ toks[i + 1].type = "ASSIGN"
         THEN FirstUnassignedRead(toks, i + 1, assigned, toks[i].value)
         ELSE IF toks[i].value \notin assigned THEN toks[i].value
         ELSE FirstUnassignedRead(toks, i + 1, assigned, target)
    ELSE IF toks[i].type \in {"SEMI", "END"}
    THEN FirstUnassignedRead(toks, i + 1,
                             IF target = "None" THEN assigned ELSE assigned \cup {target},
                             "None")
    ELSE FirstUnassignedRead(toks, i + 1, assigned, target)

\* the place of the BEGIN of the program's body: the first BEGIN
BodyStart(toks) ==
    CHOOSE i \in 1..Len(toks) :
        toks[i].type = "BEGIN" /\ \A j \in 1..(i - 1) : toks[j].type # "BEGIN"

UnassignedRead(t) == FirstUnassignedRead(TokensOf(t), BodyStart(TokensOf(t)), {}, "None")

\* no division of the program has the literal 0 as its divisor
NoZeroDivisor(toks) ==
    \A i \in 1..(Len(toks) - 1) :
        toks[i].type \in {"INTEGER_DIV", "FLOAT_DIV"} => toks[i + 1].value # IntV(0)

(* C4: interpreting a grammatical program that reads a variable before any *)
(* assignment to it has run fails with NameError carrying that variable's  *)
(* name, and with no other fault.                                          *)
C4_UnassignedReadIsNameError ==
    [][(/\ IsCallInterpret
        /\ Derivable(text)
        /\ NoZeroDivisor(TokensOf(text))
        /\ UnassignedRead(text) # "None") =>
          /\ pc' = "failed"
          /\ err' = Raise("NameError", UnassignedRead(text))]_vars

---------------------------------------------------------------------------
(* Words: the lexer alone on texts made of reserved words, of words that   *)
(* differ from one in case or by one more character, and of names          *)

MaxWords == 2

WordPieces ==
    {K_PROGRAM, K_VAR, K_BEGIN, K_END, K_INTEGER, K_REAL, K_DIV,
     <<"d", "i", "v">>, <<"E", "n", "d">>, <<"x">>, <<"5">>}

\* 1..n pieces, two neighbours joined directly or with one space between
RECURSIVE WordTextsUpTo(_)
WordTextsUpTo(n) ==
    IF n = 1 THEN WordPieces
    ELSE LET shorter == WordTextsUpTo(n - 1)
         IN  shorter \cup {t \o sep \o w :
                             t \in shorter, sep \in {<<>>, <<" ">>}, w \in WordPieces}

InitWords == InitWith(WordTextsUpTo(MaxWords))
SpecWords == InitWords /\ [][NextLexer]_vars

\* the 1-based place after the maximal run of letters and digits that
\* starts at t[i]
AlnumEnd(t, i) ==
    CHOOSE e \in i..(Len(t) + 1) :
        /\ e > Len(t) \/ t[e] \notin (Letters \cup Digits)
        /\ \A j \in i..(e - 1) : t[j] \in (Letters \cup Digits)

\* the characters of a run as one string
RECURSIVE StringOf(_)
StringOf(run) == IF run = <<>> THEN "" ELSE run[1] \o StringOf(Tail(run))

\* the token the reserved-word table of the specification gives for a run
WordToken(run) ==
    CASE run = K_PROGRAM -> Token("PROGRAM")
      [] run = K_VAR -> Token("VAR")
      [] run = K_BEGIN -> Token("BEGIN")
      [] run = K_END -> Token("END")
      [] run = K_INTEGER -> Token("INTEGER")
      [] run = K_REAL -> Token("REAL")
      [] run = K_DIV -> Token("INTEGER_DIV")
      [] OTHER -> TokenWith("ID", StringOf(run))

(* C11: at a letter, next() takes the maximal run of letters and digits    *)
(* and emits the keyword token when the run is exactly, case-sensitively,  *)
(* one of PROGRAM, VAR, BEGIN, END, INTEGER, REAL, DIV, and otherwise an   *)
(* identifier token carrying the run; so DIV is never an identifier, while *)
(* div and DIVx are.                                                       *)
C11_KeywordsAreExactMatches ==
    [][LET i == TokenStart(text, lexer.pos)
           e == AlnumEnd(text, i)
       IN  (IsCallNext /\ i <= Len(text) /\ text[i] \in Letters) =>
               /\ pc' = "lexer"
               /\ token' = WordToken(SubSeq(text, i, e - 1))
               /\ lexer'.pos = e - 1
               /\ token'.type = "ID" => token'.value # "DIV"]_vars

\* DIVx has been lexed as the name DIVx
C11_Witness ==
    /\ text = K_DIV \o <<"x">>
    /\ calls = 1
    /\ token = TokenWith("ID", "DIVx")
    /\ lexer.pos = 4

---------------------------------------------------------------------------
(* Characters that start no token *)

\* the characters a token rule of next() starts with
TokenStarts == Letters \cup Digits \cup {"(", ")", "*", "/", "+", "-", ";", ",", ".", ":"}

\* t with the character at the 1-based place i replaced by c
ReplaceAt(t, i, c) == [t EXCEPT ![i] = c]

(* C12: at a character that is no space and starts no token rule, next()   *)
(* returns no token and fails with a lexical error that carries the        *)
(* offending character and its offset: the error differs from the one for  *)
(* another offending character at the same offset, and from the one for    *)
(* the same character one place further on.                                *)
C12_LexicalErrorCarriesCharAndOffset ==
    [][LET i == TokenStart(text, lexer.pos)
       IN  (IsCallNext /\ i <= Len(text) /\ text[i] \notin TokenStarts) =>
               /\ pc' = "failed"
               /\ token' = token
               /\ err'.kind = "CalcError"
               /\ err' # Lexed(ReplaceAt(text, i, "?")).err
               /\ err' # Lexed(<<" ">> \o text).err]_vars

---------------------------------------------------------------------------
(* Byte strings for compress(): up to MaxRuns runs, each of one byte       *)
(* repeated; two neighbouring runs of the same byte make one longer run    *)

MaxRuns == 2

RleBytes == {0, 2, 255}
RunLengths == {1, 2, 3, 255, 256, 257}

RECURSIVE RunsUpTo(_)
RunsUpTo(n) ==
    IF n = 0 THEN {<<>>}
    ELSE LET shorter == RunsUpTo(n - 1)
         IN  shorter \cup {d \o Times(c, l) :
                             d \in shorter, c \in RleBytes, l \in RunLengths}

InitRle ==
    /\ pc = "start"
    /\ text = <<>>
    /\ lexer = NoLexer
    /\ token = NoToken
    /\ tree = NoTree
    /\ result = NoneV
    /\ GLOBAL_SCOPE = EmptyScope
    /\ err = NoErr
    /\ calls = 0
    /\ sdi = NoSdi
    /\ rle \in {[NoRle EXCEPT !.pc = "start", !.input = d, !.data = d] :
                  d \in RunsUpTo(MaxRuns)}
NextRle ==
    \/ RleCallCompress \/ RleCompressStep \/ RleCompressReturn
    \/ RleCallDecompress \/ RleDecompressStep \/ RleDecompressReturn
SpecRle == InitRle /\ [][NextRle]_vars

(* C13: for every byte string data, decompress(compress(data)) = data, and *)
(* neither call raises: so for the empty string, for data beginning with   *)
(* byte 0, for runs longer than 255 bytes, and for runs of the byte 255.   *)
C13_RoundTrip ==
    /\ rle.pc # "failed"
    /\ rle.pc = "done" => rle.data = rle.input

\* 257 bytes 255, then 0, 0, have been compressed and decompressed
C13_Witness ==
    /\ rle.pc = "done"
    /\ rle.input = Times(255, 257) \o Times(0, 2)
    /\ rle.data = rle.input

---------------------------------------------------------------------------
(* The declaration part alone: Lexer(text), Parser(lexer), then            *)
(* parser.declarations().  parse() itself never returns a tree (program()  *)
(* and block() raise NameError), so the nodes the parser builds are looked *)
(* at where a method does return them.                                     *)

MaxDecls == 2

\* decls = parser.declarations(): `tree` holds the list of VarDecl nodes
CallDeclarations ==
    /\ pc = "parser"
    /\ \E p \in {declarations(ParserState)} :
           /\ lexer' = p.lx
           /\ token' = p.token
           /\ tree' = IF Failed(p) THEN NoTree ELSE p.node
           /\ err' = p.err
           /\ pc' = IF Failed(p) THEN "failed" ELSE "declared"
           /\ calls' = calls + p.asked
    /\ UNCHANGED <<text, result, GLOBAL_SCOPE, sdi, rle>>

NameWords ==
    {<<<<"a">>>>,
     <<<<"a">>, <<",">>, <<"b">>>>,
     <<<<"b">>, <<",">>, <<"a">>, <<",">>, <<"x">>>>,
     <<<<"a">>, <<"b">>>>}
TypeWords == {K_INTEGER, K_REAL, <<"x">>}
OneDeclWords == {n \o <<<<":">>, t, <<";">>>> : n \in NameWords, t \in TypeWords}

\* the lists of up to n declarations
RECURSIVE DeclLists(_)
DeclLists(n) ==
    IF n = 0 THEN {<<>>}
    ELSE LET shorter == DeclLists(n - 1)
         IN  shorter \cup {l \o d : l \in shorter, d \in OneDeclWords}

DeclTexts ==
    {Join(<<K_BEGIN, K_END>>)}
    \cup {Join(<<K_VAR>> \o l \o <<K_BEGIN>>) : l \in DeclLists(MaxDecls)}

InitDecl == InitWith(DeclTexts)
NextDecl == NewLexer \/ NewParser \/ CallDeclarations
SpecDecl == InitDecl /\ [][NextDecl]_vars

\* the node objects of a tree, and of a list of trees
RECURSIVE NodesOf(_)
NodesOf(node) ==
    {node} \cup UNION {NodesOf(node.children[k]) : k \in 1..Len(node.children)}
NodesIn(nodes) == UNION {NodesOf(nodes[k]) : k \in 1..Len(nodes)}

\* the objects that have the object `id` among their children
ParentsOf(id, nodes) ==
    {n.id : n \in {m \in NodesIn(nodes) :
                     \E k \in 1..Len(m.children) : m.children[k].id = id}}

\* C14: every node object of the list declarations() returns is a child of
\* at most one parent; each VarDecl of a declaration of several names has a
\* Type object of its own.
C14_EveryNodeHasOneParent ==
    pc = "declared" =>
        \A n \in NodesIn(tree) : Cardinality(ParentsOf(n.id, tree)) <= 1

---------------------------------------------------------------------------
(* The parser and its lexer: Lexer(text), Parser(lexer), then calls of     *)
(* parser.eat(kind) by the owner of the parser, and parser.parse()         *)

\* the members of class TOKEN
TOKEN ==
    {"EOF", "PROGRAM", "VAR", "BEGIN", "END", "DOT", "COMMA", "SEMI", "COLON",
     "EMPTY", "ASSIGN", "INTEGER", "REAL", "INTEGER_CONST", "REAL_CONST", "ID",
     "LPAREN", "RPAREN", "MUL", "FLOAT_DIV", "INTEGER_DIV", "PLUS", "MINUS"}

\* parser.eat(kind); at the end of the text the calls stop
CallEat ==
    /\ pc = "parser"
    /\ calls <= Len(text)
    /\ \E kind \in TOKEN :
           \E p \in {eat(ParserState, kind)} :
               /\ lexer' = p.lx
               /\ token' = p.token
               /\ err' = p.err
               /\ pc' = IF Failed(p) THEN "failed" ELSE "parser"
               /\ calls' = calls + p.asked
    /\ UNCHANGED <<text, tree, result, GLOBAL_SCOPE, sdi, rle>>

NextParse == NewLexer \/ NewParser \/ CallEat \/ CallParse
SpecParse == Init /\ [][NextParse]_vars

\* what the k-th call of next() gives, from a new lexer lx
RECURSIVE NextTimes(_, _)
NextTimes(lx, k) ==
    IF k <= 1 THEN next(lx)
    ELSE LET n == NextTimes(lx, k - 1) IN IF Failed(n) THEN n ELSE next(n.lx)

\* the parser holds one token, the last one the lexer gave, and the lexer
\* is where it was after giving it
OneBufferedToken ==
    pc = "parser" =>
        LET n == NextTimes(LexerNew(text).lx, calls)
        IN  ~Failed(n) /\ token = n.token /\ lexer = n.lx

\* eat(kind) for the kind of the current token asks the lexer once; for any
\* other kind it raises the syntax error and leaves parser and lexer as
\* they were
EatAsksOnce ==
    pc = "parser" =>
        \A kind \in TOKEN :
            LET e == eat(ParserState, kind)
            IN  IF kind = token.type
                THEN e.asked = 1 /\ e.eaten = 1 /\ e.lx.pos >= lexer.pos
                ELSE e = [ParserState EXCEPT !.err = SyntaxErr]

\* parse() asks the lexer once for each eat() that found its kind
ParseAsksOncePerEat ==
    pc = "parser" => LET p == parse(ParserState) IN p.asked = p.eaten

\* C15: during a parse the cursor never moves back and stays within
\* 0..len(text); the parser holds exactly one buffered token; the lexer is
\* asked once when the parser is made and once by every eat(kind) that
\* finds its kind; an eat(kind) of another kind raises the syntax error
\* without asking the lexer or moving the cursor.
C15_OneTokenPerEat ==
    /\ [](OneBufferedToken /\ EatAsksOnce /\ ParseAsksOncePerEat)
    /\ [][/\ lexer'.pos >= lexer.pos
          /\ lexer'.pos \in 0..Len(text)
          /\ pc = "lexer" => calls' = 1
          /\ (pc = "parser" /\ calls' = calls) =>
                 /\ pc' = "failed"
                 /\ err' = SyntaxErr
                 /\ lexer' = lexer
                 /\ token' = token]_vars

\* C15 witness: PROGRAM, T and ; have been eaten, the buffered token is
\* VAR, and an eat of another kind has raised the syntax error
C15_Witness ==
    /\ pc = "failed"
    /\ err = SyntaxErr
    /\ calls = 4
    /\ token = Token("VAR")
    /\ lexer.pos = Len(Join(HeaderWords \o <<K_VAR>>))

---------------------------------------------------------------------------
(* Compound statements: Lexer(text), Parser(lexer), Interpreter(parser),   *)
(* then tree = parser.compound_statement() and interpreter.visit(tree).    *)
(* interpret() never gets to a visit (parse() raises NameError), so the    *)
(* execution of statements is looked at where a caller can start it.       *)

MaxBodyStmts == 3

\* tree = interpreter.parser.compound_statement()
CallCompound ==
    /\ pc = "interp"
    /\ \E p \in {compound_statement(ParserState)} :
           /\ lexer' = p.lx
           /\ token' = p.token
           /\ tree' = IF Failed(p) THEN NoTree ELSE p.node
           /\ err' = p.err
           /\ pc' = IF Failed(p) THEN "failed" ELSE "tree"
           /\ calls' = calls + p.asked
    /\ UNCHANGED <<text, result, GLOBAL_SCOPE, sdi, rle>>

BodyStatementWords ==
    {<<>>,
     <<<<"a">>, <<":", "=">>, <<"1">>>>,
     <<<<"a">>, <<":", "=">>, <<"b">>, <<"*">>, <<"2">>>>,
     <<<<"b">>, <<":", "=">>, <<"a">>, <<"+">>, <<"1">>>>,
     <<<<"b">>, <<":", "=">>, <<"-">>, <<"c">>>>,
     <<<<"a">>, <<":", "=">>, <<"7">>, <<"/">>, <<"(">>, <<"a">>, <<"-">>, <<"1">>, <<")">>>>,
     <<<<"a">>, <<":", "=">>, <<"7">>, K_DIV, <<"0">>>>,
     <<<<"c">>, <<":", "=">>, <<"a">>, K_DIV, <<"2">>>>,
     <<K_BEGIN, <<"a">>, <<":", "=">>, <<"3">>, <<";">>, <<"b">>, <<":", "=">>,
       <<"a">>, K_END>>}

\* the lists of 1..n statements with a ; between two statements
RECURSIVE BodyLists(_)
BodyLists(n) ==
    IF n = 1 THEN BodyStatementWords
    ELSE LET shorter == BodyLists(n - 1)
         IN  shorter \cup {l \o <<<<";">>>> \o w : l \in shorter, w \in BodyStatementWords}

BodyTexts == {Join(<<K_BEGIN>> \o l \o <<K_END>>) : l \in BodyLists(MaxBodyStmts)}

InitStmts == InitWith(BodyTexts)
NextStmts == NewLexer \/ NewParser \/ NewInterpreter \/ CallCompound \/ CallVisit
SpecStmts == InitStmts /\ [][NextStmts]_vars

\* the statements of a list of statements in the order they are written,
\* those of a nested compound statement in its place
RECURSIVE Flat(_, _)
Flat(children, k) ==
    IF k > Len(children) THEN <<>>
    ELSE (IF children[k].node = "Compound" THEN Flat(children[k].children, 1)
          ELSE <<children[k]>>) \o Flat(children, k + 1)

TargetOf(assign) == assign.children[1].token.value

\* the store after the first j of the statements, each assignment binding
\* its target to the value of its right-hand side in the store before it
RECURSIVE StoreAfter(_, _)
StoreAfter(stmts, j) ==
    IF j = 0 THEN EmptyScope
    ELSE LET before == StoreAfter(stmts, j - 1)
         IN  IF stmts[j].node # "Assign" THEN before
             ELSE Store(before, TargetOf(stmts[j]),
                        visit(stmts[j].children[2], before).value)

\* the visit of a compound statement has returned
Executed == pc = "done" /\ tree.node = "Compound"

\* C16: when the visit of a Compound returns, the store is the one got by
\* taking the statements in list order, each Assign giving its target the
\* value its right-hand side has in the store left by the statements
\* before it: every variable holds the value of the last assignment to it.
C16_StatementsRunInOrder ==
    Executed =>
        GLOBAL_SCOPE = StoreAfter(Flat(tree.children, 1), Len(Flat(tree.children, 1)))

\* C16 witness: a := 1; b := a + 1; a := b * 2 has left a = 4 and b = 2
C16_Witness ==
    /\ Executed
    /\ text = Join(<<K_BEGIN, <<"a">>, <<":", "=">>, <<"1">>, <<";">>,
                     <<"b">>, <<":", "=">>, <<"a">>, <<"+">>, <<"1">>, <<";">>,
                     <<"a">>, <<":", "=">>, <<"b">>, <<"*">>, <<"2">>, K_END>>)
    /\ DOMAIN GLOBAL_SCOPE = {"a", "b"}
    /\ GLOBAL_SCOPE["a"] = IntV(4)
    /\ GLOBAL_SCOPE["b"] = IntV(2)

---------------------------------------------------------------------------
(* C17, C18: what a visit does to the store *)

\* the stores the statements of the tree are executed in: the store after
\* each number of statements
StoresOf(node) ==
    {StoreAfter(Flat(node.children, 1), j) : j \in 0..Len(Flat(node.children, 1))}

\* s and t bind the same names to the same values, but for the one name
SameBut(s, t, name) ==
    /\ DOMAIN s \ {name} = DOMAIN t \ {name}
    /\ \A n \in DOMAIN s \ {name} : s[n] = t[n]

\* a declaration of the name and type the tokens give
DeclOf(var_token, type_token) ==
    Object(2, VarDecl(Object(0, Var(var_token)), Object(1, Type(type_token))))

\* the visit of node in store s leaves s as it is
LeavesStore(node, s) == visit(node, s).scope = s

\* C17: the store is empty when the Interpreter is made; a visit of a Var,
\* NoOp, UnaryOp, BinOp, Num or declaration node leaves the store as it
\* is; a visit of an Assign changes at most the binding of its own target;
\* a visit of the tree changes the bindings of targets of its Assign nodes
\* only, and leaves the tree as it is.
C17_OnlyAssignWritesStore ==
    [][/\ pc' = "interp" => GLOBAL_SCOPE' = EmptyScope
       /\ pc = "tree" =>
            /\ tree' = tree
            /\ \A n \in NodesOf(tree) : \A s \in StoresOf(tree) \cup {GLOBAL_SCOPE'} :
                  /\ n.node \notin {"Assign", "Compound"} => LeavesStore(n, s)
                  /\ n.node = "Assign" => SameBut(s, visit(n, s).scope, TargetOf(n))
                  /\ n.node = "Var" =>
                        /\ LeavesStore(DeclOf(n.token, Token("INTEGER")), s)
                        /\ LeavesStore(DeclOf(n.token, Token("INTEGER")).children[2], s)
            /\ \A name \in DOMAIN GLOBAL_SCOPE' :
                  (name \notin DOMAIN GLOBAL_SCOPE \/ GLOBAL_SCOPE'[name] # GLOBAL_SCOPE[name])
                  => \E n \in NodesOf(tree) : n.node = "Assign" /\ TargetOf(n) = name
            /\ DOMAIN GLOBAL_SCOPE \subseteq DOMAIN GLOBAL_SCOPE']_vars

\* C17 witness: b := - c; a := 1 was visited: the read of c raised
\* NameError and left the store empty
C17_Witness ==
    /\ text = Join(<<K_BEGIN, <<"b">>, <<":", "=">>, <<"-">>, <<"c">>, <<";">>,
                     <<"a">>, <<":", "=">>, <<"1">>, K_END>>)
    /\ tree # NoTree
    /\ pc = "failed"
    /\ err = Raise("NameError", "c")
    /\ GLOBAL_SCOPE = EmptyScope

\* the right-hand side reads a name the store does not bind, or divides by
\* a divisor that evaluates to zero
RECURSIVE RhsFails(_, _)
RhsFails(node, s) ==
    CASE node.node = "Var" -> node.token.value \notin DOMAIN s
      [] node.node = "UnaryOp" -> RhsFails(node.children[1], s)
      [] node.node = "BinOp" ->
            \/ RhsFails(node.children[1], s)
            \/ RhsFails(node.children[2], s)
            \/ /\ node.token.type \in {"INTEGER_DIV", "FLOAT_DIV"}
               /\ visit(node.children[2], s).value.k \in {"int", "float"}
               /\ visit(node.children[2], s).value.num = 0
      [] OTHER -> FALSE

\* the first of the statements whose right-hand side fails in the store
\* the statements before it leave, or 0
FirstFailing(stmts) ==
    LET at == {j \in 1..Len(stmts) :
                 /\ stmts[j].node = "Assign"
                 /\ RhsFails(stmts[j].children[2], StoreAfter(stmts, j - 1))}
    IN  IF at = {} THEN 0 ELSE CHOOSE j \in at : \A i \in at : j <= i

\* C18: when the right-hand side of an Assign fails (a name without a
\* binding, a zero divisor), the visit raises and the store is the one the
\* statements before that Assign left: its target keeps the binding it had
\* or stays unbound, earlier bindings remain, no later statement has run.
C18_FailedAssignLeavesStore ==
    (/\ tree # NoTree
     /\ pc \in {"done", "failed"}
     /\ FirstFailing(Flat(tree.children, 1)) > 0)
    => /\ pc = "failed"
       /\ GLOBAL_SCOPE = StoreAfter(Flat(tree.children, 1),
                                    FirstFailing(Flat(tree.children, 1)) - 1)

=============================================================================
